---- MODULE Spec2Model ----
(***************************************************************************)
(* print_bot_2: the concurrency and resource-arbitration layer.            *)
(*                                                                         *)
(*   camera arbiter   camera_thread + CameraClient::capture  (main.rs)     *)
(*   printer worker   printer_thread + its supervising loop  (printer.rs,  *)
(*                    main.rs)                                             *)
(*   sandbox executor lua_thread                             (main.rs)     *)
(*   router           main, discord_thread, twitter_thread_internal,       *)
(*                    PrintHandler, TimeRange  (main.rs, printer.rs,       *)
(*                    time_range.rs)                                       *)
(*                                                                         *)
(* Every mpsc channel is a sequence; a thread is a program counter.        *)
(***************************************************************************)
EXTENDS Integers, Sequences, FiniteSets, TLC

(***************************************************************************)
(* Bounds of the model.                                                    *)
(***************************************************************************)
\* capture() calls each camera client makes
MaxCalls == 2
\* messages sent to the printer queue, all producers together
MaxJobs == 4
\* device sessions (successful banner writes) of the printer worker
MaxSessions == 2
\* script submissions sent to the sandbox executor
MaxSubs == 2
\* print/image calls the scripts make, all submissions together
MaxEmits == 3
\* the clock of the model: a day of MinutesPerDay minutes, a minute of
\* MsPerMinute milliseconds, a millisecond of TicksPerMs clock readings
MinutesPerDay == 3
MsPerMinute == 1
TicksPerMs == 2

(***************************************************************************)
(* Program constants.                                                      *)
(***************************************************************************)
\* main.rs:115  let steps = 5;
steps == 5
\* main.rs:388 / 499  Duration::from_secs(2), in clock ticks of one second
CAPTURE_TIMEOUT == 2
\* main.rs:564-573  CameraClient ids: 0 = discord, 1 = twitter
Clients == {0, 1}
\* Option<Vec<u8>>::None as returned by capture(); frames are numbered from 1
NoFrame == 0
\* The threads holding a Sender<PrinterMsg>: PrintHandler in discord_thread
\* (printer.rs:144-150, 205-209), print_res in lua_thread (main.rs:178),
\* twitter_thread_internal (main.rs:489-491)
Producers == {"discord", "lua", "twitter"}
\* printer.rs:32-35  enum PrinterMsg
MsgKinds == {"Text", "Image"}
\* printer.rs:22  pub const PRINTER_DOTS_PER_LINE: u32 = 384;
PRINTER_DOTS_PER_LINE == 384
\* printer.rs:21  pub const PRINTER_CHARS_PER_LINE: usize = 32;
PRINTER_CHARS_PER_LINE == 32

(***************************************************************************)
(* Configuration of the run (main.rs:542-544, Opt)                         *)
(***************************************************************************)
\* --max-instructions
max_instructions == 4
\* --max-bytes-text
max_bytes_text == 10
\* --max-bytes-image
max_bytes_image == 768

(***************************************************************************)
(* What the scripts of the model do                                        *)
(***************************************************************************)
\* Strings a script passes to print: 1 byte and 5 bytes
Texts == {"a", "aaaaa"}
\* Lengths of the bit tables a script passes to image
ImageBits == {PRINTER_DOTS_PER_LINE, 100}
\* mlua::Value as far as value_to_string tells them apart (main.rs:297-310)
LuaNil == [t |-> "nil"]
LuaBool(b) == [t |-> "boolean", b |-> b]
LuaInt(i) == [t |-> "integer", i |-> i]
LuaStr(str) == [t |-> "string", s |-> str]
LuaTable == [t |-> "table"]
\* The values a script returns
Returns ==
    { <<>>,
      <<LuaStr("aaaaaaaaaaaa"), LuaNil>>,
      <<LuaBool(FALSE), LuaTable, LuaInt(-17)>> }

VARIABLES
    \* ---- camera arbiter (camera_thread) ----
    camPc,      \* "setup" | "prime" | "recv" | "next" | "dead"
    primed,     \* priming reads done so far
    devReads,   \* stream.next() calls that returned a frame; the n-th frame is n
    camCur,     \* client_idx of the request being served
    camReq,     \* the request channel camera_tx -> camera_rx
    resp,       \* resp[c]: the response channel of client c
    \* ---- camera clients (CameraClient::capture callers) ----
    cliPc,      \* "idle" | "wait" | "gone"
    waited,     \* ticks client c has spent in recv_timeout
    calls,      \* capture() calls client c has started
    ret,        \* what c's last capture() returned
    \* ---- history of the camera channels ----
    reqSent,    \* every id sent on the request channel, in channel order
    reqLog,     \* every id the arbiter received, in order
    sendLog,    \* every <<client, frame>> the arbiter sent, in order
    delivered,  \* delivered[c]: frames c's capture() calls took from resp[c]
    \* ---- printer worker (printer_thread under its supervising loop) ----
    prPc,       \* "init" | "banner" | "recv" | "apply"
    prQueue,    \* the channel Sender<PrinterMsg> -> Receiver<PrinterMsg>
    prCur,      \* the message taken by receiver.recv(), <<>> when none
    prBanners,  \* welcome banners written: device sessions begun
    onDevice,   \* messages being written to the device right now
    \* ---- history of the printer channel ----
    prSent,     \* every message sent on the channel, in channel order
    prSentBy,   \* prSentBy[p]: messages producer p has sent
    prDone,     \* every <<message, ok>> the worker finished with, in order
    prErr,      \* the error printer_thread returned with and log_result
                \* logged, "none" while printer_thread runs
    prSendFailed, \* a send on the printer channel has returned Err
    prStranded, \* how many messages that were in the channel when a device
                \* session ended with an Err have not been applied since
    \* ---- sandbox executor (lua_thread) ----
    luaPc,      \* "recv" | "eval" | "report" | "dead"
    luaQueue,   \* the channel lua_tx -> lua_rx (discord: Receiver<String>)
    luaTxOpen,  \* discord_thread, which owns lua_tx, is alive
    gen,        \* submissions received: the loop iteration we are in
    textRem,    \* textRem[g]: remaining_bytes of the print closure made in iteration g
    imgRem,     \* imgRem[g]: remaining_bytes of the image closure made in iteration g
    globals,    \* lua.globals(): print, image, and one name a script may set
    hookOn,     \* a hook is installed
    instr,      \* instructions run since the hook count was last reset
    inPcall,    \* the script is running inside pcall(...)
    outcome,    \* what eval() returned
    luaOut,     \* messages print_res forwarded while handling this submission
    \* ---- history of the sandbox executor ----
    luaSent,    \* submissions sent on lua_tx; the n-th is n
    luaTaken,   \* submissions received, in order
    handling,   \* submissions received and not yet finished with
    hookFired,  \* the hook has fired in this evaluation
    emitCount,  \* print/image calls made so far that reached the callback
    emitLog,    \* the print/image calls of this evaluation that reached the callback
    \* ---- router (main, discord_thread, twitter_thread_internal) ----
    rtPc,       \* "args" | "setup" | "serve" | "closed": main, then discord_thread
    opt,        \* the parsed Opt: disable_printer, disable_camera, header, time_range
    printerWorkers, \* the spawn sites whose printer worker loop is running
    cameraReaders,  \* the threads that read the camera device
    rtEv,       \* the external event being handled, with the local time read
                \* for it; NoEvent between two events
    rtOut,      \* what handling it caused: replies, printer jobs, script
                \* submissions, capture() calls, camera device reads
    rtRet       \* what discord_thread returned: Running while it has not

camVars == <<camPc, primed, devReads, camCur, camReq, resp, cliPc, waited,
             calls, ret, reqSent, reqLog, sendLog, delivered>>

prVars == <<prPc, prQueue, prCur, prBanners, onDevice, prSent, prSentBy,
            prDone, prErr, prStranded, prSendFailed>>

luaVars == <<luaPc, luaQueue, luaTxOpen, gen, textRem, imgRem, globals, hookOn,
             instr, inPcall, outcome, luaOut, luaSent, luaTaken, handling,
             hookFired, emitCount, emitLog>>

rtVars == <<rtPc, opt, printerWorkers, cameraReaders, rtEv, rtOut, rtRet>>

vars == <<camVars, prVars, luaVars, rtVars>>

(***************************************************************************)
(* Camera arbiter                                                          *)
(***************************************************************************)
CamInit ==
    /\ camPc = "setup"
    /\ primed = 0
    /\ devReads = 0
    /\ camCur = 0
    /\ camReq = <<>>
    /\ resp = [c \in Clients |-> <<>>]
    /\ cliPc = [c \in Clients |-> "idle"]
    /\ waited = [c \in Clients |-> 0]
    /\ calls = [c \in Clients |-> 0]
    /\ ret = [c \in Clients |-> NoFrame]
    /\ reqSent = <<>>
    /\ reqLog = <<>>
    /\ sendLog = <<>>
    /\ delivered = [c \in Clients |-> <<>>]

\* A slip: camera_rx is taken to outlive camera_thread
camera_rx_kept == TRUE

\* The thread returned (every `?` of camera_thread): camera_rx and the
\* clients vector are dropped with it.  Nothing respawns it (main.rs:563).
camera_alive == camPc # "dead"

\* Unchanged by every arbiter step
cam_client_side == <<cliPc, waited, calls, ret, reqSent, delivered>>

\* main.rs:97-112  open the device, set the format, create the stream
camera_setup ==
    /\ camPc = "setup"
    /\ \E ok \in BOOLEAN : camPc' = IF ok THEN "prime" ELSE "dead"
    /\ UNCHANGED <<primed, devReads, camCur, camReq, resp, reqLog, sendLog>>
    /\ UNCHANGED cam_client_side

\* A slip: the priming loop is left after its first read
primed_after_one(n) == n >= 1

\* main.rs:115-116  for i in 1..=steps: the loop is left after `steps` reads
primed_all(n) == n = steps

\* main.rs:116-119  one priming read; the frame is discarded
camera_prime ==
    /\ camPc = "prime"
    /\ \E ok \in BOOLEAN :
          IF ok
          THEN /\ primed' = primed + 1
               /\ devReads' = devReads + 1
               /\ camPc' = IF primed_all(primed + 1) THEN "recv" ELSE "prime"
          ELSE /\ camPc' = "dead"
               /\ UNCHANGED <<primed, devReads>>
    /\ UNCHANGED <<camCur, camReq, resp, reqLog, sendLog>>
    /\ UNCHANGED cam_client_side

\* Every Sender<usize> is gone: both clients dropped their handles
senders_gone == \A c \in Clients : cliPc[c] = "gone"

\* main.rs:122  let client_idx = recv.recv()?;
camera_recv ==
    /\ camPc = "recv"
    /\ IF camReq # <<>>
       THEN /\ camCur' = Head(camReq)
            /\ camReq' = Tail(camReq)
            /\ reqLog' = Append(reqLog, Head(camReq))
            /\ camPc' = "next"
       ELSE /\ senders_gone
            /\ camPc' = "dead"
            /\ UNCHANGED <<camCur, camReq, reqLog>>
    /\ UNCHANGED <<primed, devReads, resp, sendLog>>
    /\ UNCHANGED cam_client_side

\* A slip in the indexing: every frame goes to the first client
response_channel_first(idx) == 0

\* The client whose response channel the frame of request `idx` goes to
response_channel(idx) == idx

\* main.rs:123-124  let (buffer, _) = stream.next()?;
\*                  clients[client_idx].send(buffer.to_vec())?;
camera_next_send ==
    /\ camPc = "next"
    /\ \E ok \in BOOLEAN :
          IF ok
          THEN /\ devReads' = devReads + 1
               /\ LET to == response_channel(camCur) IN
                  IF cliPc[to] # "gone"
                  THEN /\ resp' = [resp EXCEPT ![to] = Append(@, devReads + 1)]
                       /\ sendLog' = Append(sendLog, <<to, devReads + 1>>)
                       /\ camPc' = "recv"
                  ELSE /\ camPc' = "dead"
                       /\ UNCHANGED <<resp, sendLog>>
          ELSE /\ camPc' = "dead"
               /\ UNCHANGED <<devReads, resp, sendLog>>
    /\ UNCHANGED <<primed, camCur, camReq, reqLog>>
    /\ UNCHANGED cam_client_side

(***************************************************************************)
(* Camera clients                                                          *)
(***************************************************************************)
cam_arbiter_side == <<camPc, primed, devReads, camCur, reqLog, sendLog>>

\* main.rs:90  self.sender.send(self.id).ok()?;
\* An mpsc send never blocks; it fails only when camera_rx is dropped.
capture_send(c) ==
    /\ cliPc[c] = "idle"
    /\ calls[c] < MaxCalls
    /\ calls' = [calls EXCEPT ![c] = @ + 1]
    /\ IF camera_alive
       THEN /\ camReq' = Append(camReq, c)
            /\ reqSent' = Append(reqSent, c)
            /\ cliPc' = [cliPc EXCEPT ![c] = "wait"]
            /\ waited' = [waited EXCEPT ![c] = 0]
            /\ UNCHANGED ret
       ELSE /\ ret' = [ret EXCEPT ![c] = NoFrame]
            /\ UNCHANGED <<camReq, reqSent, cliPc, waited>>
    /\ UNCHANGED <<resp, delivered>>
    /\ UNCHANGED cam_arbiter_side

\* main.rs:91  recv_timeout returns Ok(frame): a frame is in the channel
capture_frame(c) ==
    /\ cliPc[c] = "wait"
    /\ resp[c] # <<>>
    /\ ret' = [ret EXCEPT ![c] = Head(resp[c])]
    /\ delivered' = [delivered EXCEPT ![c] = Append(@, Head(resp[c]))]
    /\ resp' = [resp EXCEPT ![c] = Tail(@)]
    /\ cliPc' = [cliPc EXCEPT ![c] = "idle"]
    /\ UNCHANGED <<camReq, waited, calls, reqSent>>
    /\ UNCHANGED cam_arbiter_side

\* A blocking recv() in place of recv_timeout: it gives up only on disconnect
recv_blocking(c) == ~camera_alive

\* When recv_timeout gives up on an empty channel: the timeout has run out,
\* or the arbiter's Sender is dropped (RecvTimeoutError::Disconnected)
recv_timeout_expired(c) == waited[c] = CAPTURE_TIMEOUT \/ ~camera_alive

\* main.rs:91  recv_timeout returns Err, .ok() makes it None
capture_none(c) ==
    /\ cliPc[c] = "wait"
    /\ resp[c] = <<>>
    /\ recv_timeout_expired(c)
    /\ ret' = [ret EXCEPT ![c] = NoFrame]
    /\ cliPc' = [cliPc EXCEPT ![c] = "idle"]
    /\ UNCHANGED <<camReq, resp, waited, calls, reqSent, delivered>>
    /\ UNCHANGED cam_arbiter_side

\* One second passes for every caller blocked in recv_timeout.  A caller
\* whose timeout has run out returns before the clock moves on.
Tick ==
    /\ \E c \in Clients : cliPc[c] = "wait"
    /\ \A c \in Clients : cliPc[c] = "wait" => waited[c] < CAPTURE_TIMEOUT
    /\ waited' = [c \in Clients |->
                    IF cliPc[c] = "wait" THEN waited[c] + 1 ELSE waited[c]]
    /\ UNCHANGED <<camReq, resp, cliPc, calls, ret, reqSent, delivered>>
    /\ UNCHANGED cam_arbiter_side

\* The thread that owns client c ends between two calls (discord_thread
\* main.rs:413, twitter_thread_internal main.rs:468/518): its CameraClient,
\* with the Receiver and the Sender clone, is dropped.
client_exit(c) ==
    /\ cliPc[c] = "idle"
    /\ cliPc' = [cliPc EXCEPT ![c] = "gone"]
    /\ UNCHANGED <<camReq, resp, waited, calls, ret, reqSent, delivered>>
    /\ UNCHANGED cam_arbiter_side

\* The other threads do not move in a step of the camera threads
camera_only == UNCHANGED <<prVars, luaVars, rtVars>>

CameraNext ==
    \/ camera_setup /\ camera_only
    \/ camera_prime /\ camera_only
    \/ camera_recv /\ camera_only
    \/ camera_next_send /\ camera_only
    \/ \E c \in Clients : capture_send(c) /\ camera_only
    \/ \E c \in Clients : capture_frame(c) /\ camera_only
    \/ \E c \in Clients : capture_none(c) /\ camera_only
    \/ \E c \in Clients : client_exit(c) /\ camera_only
    \/ Tick /\ camera_only

(***************************************************************************)
(* Printer worker                                                          *)
(***************************************************************************)
PrInit ==
    /\ prPc = "init"
    /\ prQueue = <<>>
    /\ prCur = <<>>
    /\ prBanners = 0
    /\ onDevice = {}
    /\ prSent = <<>>
    /\ prSentBy = [p \in Producers |-> 0]
    /\ prDone = <<>>
    /\ prErr = "none"
    /\ prStranded = 0
    /\ prSendFailed = FALSE

\* What a producer may send: the twitter thread sends Text only
kinds_of(p) == IF p = "twitter" THEN {"Text"} ELSE MsgKinds

\* A receiver that belongs to the call of printer_thread: it is gone from
\* the Err return of one call to the start of the next
receiver_dropped_with_worker == prPc = "init" /\ prErr # "none"

\* main.rs:533-536, printer.rs:82-85  the Receiver is moved into the closure
\* of the supervising loop, which has no exit and lends it to every call of
\* printer_thread: it is never dropped
receiver_dropped == FALSE

\* printer.rs:146-147, 206-207; main.rs:178; main.rs:489-490
\* Sender::send appends to the channel and never blocks; it returns Err,
\* and the message is not queued, only when the Receiver has been dropped.
printer_send(p) ==
    /\ Len(prSent) < MaxJobs
    /\ \E k \in kinds_of(p) :
          LET msg == [by |-> p, n |-> prSentBy[p] + 1, kind |-> k] IN
          IF receiver_dropped
          THEN prSendFailed' = TRUE /\ UNCHANGED <<prQueue, prSent>>
          ELSE /\ prQueue' = Append(prQueue, msg)
               /\ prSent' = Append(prSent, msg)
               /\ UNCHANGED prSendFailed
    /\ prSentBy' = [prSentBy EXCEPT ![p] = @ + 1]
    /\ UNCHANGED <<prPc, prCur, prBanners, onDevice, prDone, prErr, prStranded>>

\* The channel a restarted worker would get if the supervising loop made a
\* new one: empty
receiver_recreated(q) == <<>>

\* main.rs:533-535  loop { printer_thread(&mut rx) }: the restarted
\* printer_thread reads the receiver the failed one read, with everything
\* that is in the channel
receiver_after_restart(q) == q

\* printer_thread returns (an Err, printer.rs:42-65) and is called again:
\* the device handle is dropped, the channel goes to the next call
printer_thread_returns(err) ==
    /\ prPc' = "init"
    /\ prErr' = err
    /\ prQueue' = receiver_after_restart(prQueue)

\* The device session ends with the Err: what is in the channel now has
\* not been applied in it
session_lost(err) ==
    /\ printer_thread_returns(err)
    /\ prStranded' = Len(prQueue)

\* The errors of the printer library (escposify and pos58_usb pass on
\* io::Error and libusb::Error; a lost USB link is one of them)
DeviceErrors == {"error", "link lost"}

\* What a call of the printer library returns
DeviceResults == {"ok"} \cup DeviceErrors

\* printer.rs:42-45  libusb context, POS58USB::new, Printer::new.
\* On Err the function returns and main.rs:534-536 calls it again.
printer_init ==
    /\ prPc = "init"
    /\ prBanners < MaxSessions
    /\ \E res \in DeviceResults :
          IF res = "ok"
          THEN prPc' = "banner" /\ prErr' = "none" /\ UNCHANGED prQueue
          ELSE printer_thread_returns(res)
    /\ UNCHANGED prStranded
    /\ UNCHANGED <<prCur, prBanners, onDevice, prSent, prSentBy, prDone, prSendFailed>>

\* printer.rs:48-51  the welcome message
printer_banner ==
    /\ prPc = "banner"
    /\ \E res \in DeviceResults :
          IF res = "ok"
          THEN /\ prPc' = "recv" /\ prBanners' = prBanners + 1
               /\ UNCHANGED <<prQueue, prErr, prStranded>>
          ELSE session_lost(res) /\ UNCHANGED prBanners
    /\ UNCHANGED <<prCur, onDevice, prSent, prSentBy, prDone, prSendFailed>>

\* A slip: the newest message is taken first
newest_job(q) == q[Len(q)]

\* The message receiver.recv() returns: the oldest in the channel
next_job(q) == Head(q)

\* The channel without the message m
without(q, m) == SelectSeq(q, LAMBDA e : e # m)

\* printer.rs:55-56  while let Ok(msg) = receiver.recv() { match msg {..
\* blocks while the channel is empty; the Sender held by main is never dropped
printer_recv ==
    /\ prPc = "recv"
    /\ prQueue # <<>>
    /\ LET msg == next_job(prQueue) IN
          /\ prCur' = msg
          /\ prQueue' = without(prQueue, msg)
          /\ onDevice' = onDevice \cup {msg}
    /\ prPc' = "apply"
    /\ UNCHANGED <<prBanners, prSent, prSentBy, prDone, prErr, prStranded, prSendFailed>>

\* printer.rs:57-66  chain_align(..)?.chain_bit_image / chain_println(..)?
\* .flush()?  Every Err, whatever its kind, returns from printer_thread
\* through `?`: the supervising loop (main.rs:534-536) logs it and starts
\* printer_thread again on the same receiver.
printer_apply ==
    /\ prPc = "apply"
    /\ \E res \in DeviceResults :
          /\ prDone' = Append(prDone, <<prCur, res = "ok">>)
          /\ IF res = "ok"
             THEN /\ prPc' = "recv"
                  /\ prStranded' = IF prStranded > 0 THEN prStranded - 1 ELSE 0
                  /\ UNCHANGED <<prQueue, prErr>>
             ELSE session_lost(res)
    /\ onDevice' = onDevice \ {prCur}
    /\ prCur' = <<>>
    /\ UNCHANGED <<prBanners, prSent, prSentBy, prSendFailed>>

\* The other threads do not move in a step of the printer threads
printer_only == UNCHANGED <<camVars, luaVars, rtVars>>

PrinterNext ==
    \/ \E p \in Producers : printer_send(p) /\ printer_only
    \/ printer_init /\ printer_only
    \/ printer_banner /\ printer_only
    \/ printer_recv /\ printer_only
    \/ printer_apply /\ printer_only

(***************************************************************************)
(* Sandbox executor                                                        *)
(***************************************************************************)
\* Loop iterations of lua_thread that create budget counters
Gens == 1..MaxSubs

\* A Lua function value made by create_function in iteration g; it owns the
\* Rc<RefCell<i64>> counter of that iteration (main.rs:204-207, 218-221)
Closure(f, g) == [fn |-> f, gen |-> g]
NoFn == [fn |-> "nil", gen |-> 0]

\* PrinterMsg values
TextMsg(str) == [kind |-> "Text", text |-> str, bits |-> 0]
ImageMsg(n) == [kind |-> "Image", text |-> "", bits |-> n]

\* Result<MultiValue, mlua::Error> of eval()
NoOutcome == [kind |-> "none", cause |-> "", msg |-> "", vals |-> <<>>]
OkValues(v) == [kind |-> "ok", cause |-> "", msg |-> "", vals |-> v]
\* Error::CallbackError { cause: RuntimeError(m) }
CallbackRuntime(m) == [kind |-> "callback", cause |-> "runtime", msg |-> m, vals |-> <<>>]
\* Error::CallbackError with another cause (an argument that does not convert)
CallbackOther(m) == [kind |-> "callback", cause |-> "other", msg |-> m, vals |-> <<>>]
\* any other mlua::Error, by its Display text
ScriptError(m) == [kind |-> "error", cause |-> "", msg |-> m, vals |-> <<>>]

LuaInit ==
    /\ luaPc = "recv"
    /\ luaQueue = <<>>
    /\ luaTxOpen = TRUE
    /\ gen = 0
    /\ textRem = [g \in Gens |-> 0]
    /\ imgRem = [g \in Gens |-> 0]
    /\ globals = [print |-> NoFn, image |-> NoFn, saved |-> NoFn]
    /\ hookOn = FALSE
    /\ instr = 0
    /\ inPcall = FALSE
    /\ outcome = NoOutcome
    /\ luaOut = <<>>
    /\ luaSent = 0
    /\ luaTaken = <<>>
    /\ handling = {}
    /\ hookFired = FALSE
    /\ emitLog = <<>>
    /\ emitCount = 0

\* main.rs:381  lua_tx.send(message.content.trim_start_matches(..))
lua_submit ==
    /\ luaTxOpen
    /\ luaPc # "dead"
    /\ luaSent < MaxSubs
    /\ luaSent' = luaSent + 1
    /\ luaQueue' = Append(luaQueue, luaSent + 1)
    /\ UNCHANGED <<luaPc, luaTxOpen, gen, textRem, imgRem, globals, hookOn, instr,
                   inPcall, outcome, luaOut, luaTaken, handling, hookFired, emitCount, emitLog>>

\* main.rs:412-418, 582-591  discord_thread returns: lua_tx is dropped
lua_tx_drop ==
    /\ luaTxOpen
    /\ luaTxOpen' = FALSE
    /\ UNCHANGED <<luaPc, luaQueue, gen, textRem, imgRem, globals, hookOn, instr,
                   inPcall, outcome, luaOut, luaSent, luaTaken, handling,
                   hookFired, emitCount, emitLog>>

\* The text counter of iteration h is still owned by a function the script
\* kept in a global of its own
kept(h) == globals.saved = Closure("print", h)

\* main.rs:192-248  receive a submission; strip the code fence; make the two
\* budget counters and the closures over them; set the globals print and
\* image; install the instruction hook.  The Lua state made at main.rs:173
\* is the same in every iteration: the other globals stay as the last
\* script left them.
lua_recv ==
    /\ luaPc = "recv"
    /\ IF luaQueue # <<>>
       THEN LET sub == next_job(luaQueue)
                g == gen + 1
            IN  /\ luaQueue' = without(luaQueue, sub)
                /\ luaTaken' = Append(luaTaken, sub)
                /\ handling' = handling \cup {sub}
                /\ gen' = g
                /\ textRem' = [h \in Gens |->
                      IF h = g THEN max_bytes_text
                      ELSE IF kept(h) THEN textRem[h] ELSE 0]
                /\ imgRem' = [h \in Gens |->
                      IF h = g THEN max_bytes_image
                      ELSE 0]
                /\ globals' = [globals EXCEPT !.print = Closure("print", g),
                                              !.image = Closure("image", g)]
                /\ hookOn' = TRUE
                /\ instr' = 0
                /\ inPcall' = FALSE
                /\ hookFired' = FALSE
                /\ emitLog' = <<>>
                /\ UNCHANGED emitCount
                /\ luaOut' = <<>>
                /\ outcome' = NoOutcome
                /\ luaPc' = "eval"
                /\ UNCHANGED <<luaTxOpen, luaSent>>
       ELSE /\ ~luaTxOpen
            /\ luaPc' = "dead"
            /\ UNCHANGED <<luaQueue, luaTxOpen, gen, textRem, imgRem, globals, hookOn,
                           instr, inPcall, outcome, luaOut, luaSent, luaTaken,
                           handling, hookFired, emitCount, emitLog>>

\* The hook set with every_nth_instruction fires at the next instruction
hook_due == hookOn /\ instr + 1 = max_instructions

\* One more instruction has run
counted ==
    /\ instr' = instr + 1
    /\ UNCHANGED hookFired

\* An error is raised where the script is running.  Inside pcall the
\* protected call ends and the script goes on (the base library, pcall
\* included, is loaded by Lua::new_with, main.rs:173); otherwise eval()
\* returns the error.
raise(err) ==
    /\ inPcall' = FALSE
    /\ IF inPcall
       THEN UNCHANGED <<outcome, luaPc>>
       ELSE outcome' = err /\ luaPc' = "report"

lua_thread_frame == <<luaQueue, luaTxOpen, gen, hookOn, luaSent, luaTaken, handling>>

\* The script runs an instruction that calls no host function
lua_step ==
    /\ luaPc = "eval" /\ ~hook_due
    /\ counted
    /\ UNCHANGED <<luaPc, textRem, imgRem, globals, inPcall, outcome, luaOut, emitLog>>
    /\ UNCHANGED lua_thread_frame
    /\ UNCHANGED emitCount

\* main.rs:237-248  the hook returns Err(RuntimeError("Instruction limit
\* reached")); it is raised in the running script like any other error
lua_hook ==
    /\ luaPc = "eval" /\ hook_due
    /\ instr' = 0
    /\ hookFired' = TRUE
    /\ raise(CallbackRuntime("Instruction limit reached"))
    /\ UNCHANGED <<textRem, imgRem, globals, luaOut, emitLog>>
    /\ UNCHANGED lua_thread_frame
    /\ UNCHANGED emitCount

\* The script enters pcall(f)
lua_pcall ==
    /\ luaPc = "eval" /\ ~hook_due
    /\ ~inPcall
    /\ inPcall' = TRUE
    /\ counted
    /\ UNCHANGED <<luaPc, textRem, imgRem, globals, outcome, luaOut, emitLog>>
    /\ UNCHANGED lua_thread_frame
    /\ UNCHANGED emitCount

\* The function called by pcall returns
lua_pcall_return ==
    /\ luaPc = "eval" /\ ~hook_due
    /\ inPcall
    /\ inPcall' = FALSE
    /\ counted
    /\ UNCHANGED <<luaPc, textRem, imgRem, globals, outcome, luaOut, emitLog>>
    /\ UNCHANGED lua_thread_frame
    /\ UNCHANGED emitCount

\* The script stores the function held by the global print in a global of
\* its own:  saved = print
lua_save ==
    /\ luaPc = "eval" /\ ~hook_due
    /\ globals' = [globals EXCEPT !.saved = globals.print]
    /\ counted
    /\ UNCHANGED <<luaPc, textRem, imgRem, inPcall, outcome, luaOut, emitLog>>
    /\ UNCHANGED lua_thread_frame
    /\ UNCHANGED emitCount

\* A slip: a counter that has just reached zero still allows the call
budget_allows_zero(rem) == rem >= 0

\* main.rs:209  match *remaining_bytes.borrow() > 0
budget_allows(rem) == rem > 0

\* main.rs:207-212  the script calls the function held by the global `name`,
\* a print closure, with the string txt
lua_call_print(name, txt) ==
    /\ luaPc = "eval" /\ ~hook_due
    /\ globals[name].fn = "print"
    /\ emitCount < MaxEmits /\ emitCount' = emitCount + 1
    /\ LET g == globals[name].gen
           after == textRem[g] - Len(txt)
           ok == budget_allows(after)
       IN  /\ textRem' = [textRem EXCEPT ![g] = after]
           /\ emitLog' = Append(emitLog,
                 [fn |-> "print", len |-> Len(txt), ok |-> ok, gen |-> g,
                  cur |-> IF g = gen THEN after ELSE textRem[gen]])
           /\ IF ok
              THEN /\ luaOut' = Append(luaOut, TextMsg(txt))
                   /\ UNCHANGED <<luaPc, inPcall, outcome>>
              ELSE /\ raise(CallbackRuntime("Text byte limit reached"))
                   /\ UNCHANGED luaOut
    /\ counted
    /\ UNCHANGED <<imgRem, globals>>
    /\ UNCHANGED lua_thread_frame

\* A slip: every bit count is taken for whole lines
width_ok_any(bits) == TRUE

\* main.rs:276-279  ensure!(image.len() as u32 % PRINTER_DOTS_PER_LINE == 0, ..)
width_ok(bits) == bits % PRINTER_DOTS_PER_LINE = 0

\* main.rs:221-231  the script calls the function held by the global `name`,
\* an image closure, with a table of `bits` booleans
lua_call_image(name, bits) ==
    /\ luaPc = "eval" /\ ~hook_due
    /\ globals[name].fn = "image"
    /\ emitCount < MaxEmits /\ emitCount' = emitCount + 1
    /\ LET g == globals[name].gen
           after == imgRem[g] - bits
           ok == budget_allows(after) /\ width_ok(bits)
       IN  /\ imgRem' = [imgRem EXCEPT ![g] = after]
           /\ emitLog' = Append(emitLog,
                 [fn |-> "image", len |-> bits, ok |-> ok, gen |-> g,
                  cur |-> IF g = gen THEN after ELSE imgRem[gen]])
           /\ IF ok
              THEN /\ luaOut' = Append(luaOut, ImageMsg(bits))
                   /\ UNCHANGED <<luaPc, inPcall, outcome>>
              ELSE /\ raise(IF budget_allows(after)
                            THEN CallbackRuntime("Err: Img width != 384")
                            ELSE CallbackRuntime("Image byte limit reached"))
                   /\ UNCHANGED luaOut
    /\ counted
    /\ UNCHANGED <<textRem, globals>>
    /\ UNCHANGED lua_thread_frame

\* The script calls print or image with a value that does not convert to
\* String / Vec<bool>: the callback body does not run
lua_call_badarg ==
    /\ luaPc = "eval" /\ ~hook_due
    /\ raise(CallbackOther("error converting Lua table to String"))
    /\ counted
    /\ UNCHANGED <<textRem, imgRem, globals, luaOut, emitLog>>
    /\ UNCHANGED lua_thread_frame
    /\ UNCHANGED emitCount

\* The script raises an error of its own:  error("boom")
lua_error ==
    /\ luaPc = "eval" /\ ~hook_due
    /\ raise(ScriptError("runtime error: boom"))
    /\ counted
    /\ UNCHANGED <<textRem, imgRem, globals, luaOut, emitLog>>
    /\ UNCHANGED lua_thread_frame
    /\ UNCHANGED emitCount

\* The chunk returns the values vals: eval() returns Ok(vals)
lua_return(vals) ==
    /\ luaPc = "eval" /\ ~hook_due
    /\ ~inPcall
    /\ outcome' = OkValues(vals)
    /\ luaPc' = "report"
    /\ counted
    /\ UNCHANGED <<textRem, imgRem, globals, inPcall, luaOut, emitLog>>
    /\ UNCHANGED lua_thread_frame
    /\ UNCHANGED emitCount

Digit == <<"0", "1", "2", "3", "4", "5", "6", "7", "8", "9">>

RECURSIVE Decimal(_)
\* format!("{}", i) of a non-negative integer
Decimal(n) == IF n < 10 THEN Digit[n + 1] ELSE Decimal(n \div 10) \o Digit[(n % 10) + 1]

\* main.rs:296-311
value_to_string(value) ==
    CASE value.t = "nil" -> "nil"
      [] value.t = "boolean" -> IF value.b THEN "true" ELSE "false"
      [] value.t = "integer" -> IF value.i < 0 THEN "-" \o Decimal(-value.i)
                                ELSE Decimal(value.i)
      [] value.t = "string" -> "\"" \o value.s \o "\""
      [] OTHER -> "Table(Ref)"

\* A slip: every outcome is reported as an error, in one line
outcome_lines_one(o) == <<"Error: " \o o.msg>>

\* main.rs:251-268  the lines the outcome of eval() is mapped to
outcome_lines(o) ==
    CASE o.kind = "callback" /\ o.cause = "runtime" -> <<o.msg>>
      [] o.kind = "callback" -> <<"Callback error: " \o o.msg>>
      [] o.kind = "error" -> <<"Error: " \o o.msg>>
      [] OTHER -> [i \in 1..Len(o.vals) |-> value_to_string(o.vals[i])]

\* A slip: the hook stays installed
hook_left == TRUE

\* main.rs:271  lua.remove_hook()
hook_removed == FALSE

\* main.rs:251-272  every line of the outcome goes to print_res as a Text
\* message; then the hook is removed and the loop starts over.  The hook
\* count and the call stack of the script are gone with the evaluation.
lua_report ==
    /\ luaPc = "report"
    /\ LET lines == outcome_lines(outcome)
       IN  luaOut' = luaOut \o [i \in 1..Len(lines) |-> TextMsg(lines[i])]
    /\ hookOn' = hook_removed
    /\ handling' = handling \ {luaTaken[Len(luaTaken)]}
    /\ instr' = 0
    /\ inPcall' = FALSE
    /\ luaPc' = "recv"
    /\ UNCHANGED <<luaQueue, luaTxOpen, gen, textRem, imgRem, globals, outcome,
                   luaSent, luaTaken, hookFired, emitCount, emitLog>>

\* The other threads do not move in a step of the sandbox executor
lua_only == UNCHANGED <<camVars, prVars, rtVars>>

LuaNext ==
    \/ lua_submit /\ lua_only
    \/ lua_tx_drop /\ lua_only
    \/ lua_recv /\ lua_only
    \/ lua_step /\ lua_only
    \/ lua_hook /\ lua_only
    \/ lua_pcall /\ lua_only
    \/ lua_pcall_return /\ lua_only
    \/ lua_save /\ lua_only
    \/ \E name \in {"print", "saved"}, txt \in Texts :
          lua_call_print(name, txt) /\ lua_only
    \/ \E bits \in ImageBits : lua_call_image("image", bits) /\ lua_only
    \/ lua_call_badarg /\ lua_only
    \/ lua_error /\ lua_only
    \/ \E vals \in Returns : lua_return(vals) /\ lua_only
    \/ lua_report /\ lua_only

(***************************************************************************)
(* Time window (time_range.rs)                                             *)
(***************************************************************************)
\* A NaiveTime is a clock reading: ticks since midnight
TicksPerDay == MinutesPerDay * MsPerMinute * TicksPerMs
Times == 0..(TicksPerDay - 1)

\* main.rs:152  NaiveTime::from_hms(h, m, 0): a whole minute
from_hms(m) == m * MsPerMinute * TicksPerMs

\* Duration::num_milliseconds of a signed duration of d ticks: whole
\* milliseconds, the rest cut off towards zero
num_milliseconds(d) ==
    IF d >= 0 THEN d \div TicksPerMs ELSE -((-d) \div TicksPerMs)

\* time_range.rs:19-21  (a - b).num_milliseconds() > 0
time_greater(a, b) == num_milliseconds(a - b) > 0

\* time_range.rs:3  TimeRange(begin, end)
TimeRange(begin, end) == <<begin, end>>

\* time_range.rs:13-16
contains(range, t) ==
    LET begin == range[1]
        end == range[2]
    IN  time_greater(end, begin) # (time_greater(t, end) = time_greater(t, begin))

\* main.rs:524-526  Option<TimeRange>: None unless both times are given
NoWindow == <<>>
Windows ==
    { TimeRange(from_hms(b), from_hms(e)) : b, e \in 0..(MinutesPerDay - 1) }

\* A gate that is never closed
in_range_always(range, t) == TRUE

\* main.rs:351-353, 372-374  the command goes on unless a time range is
\* configured and check_local() says the local time t is not in it
in_range(range, t) == range = NoWindow \/ contains(range, t)

(***************************************************************************)
(* External events                                                         *)
(***************************************************************************)
\* main.rs:129-132
HELP_COMMAND == "!help"
PRINT_COMMAND == "!print"
SHOW_COMMAND == "!showme"
LUA_COMMAND == "!lua"

\* What into_url() and path_segments() make of a string: not an absolute
\* URL, or the path segments, each split at '.'
NoUrl == [abs |-> FALSE, segs |-> <<>>]
Url(segs) == [abs |-> TRUE, segs |-> segs]
PngUrl == [str |-> "https://fuck.com/wat.png", url |-> Url(<< <<"wat", "png">> >>)]
HtmlUrl == [str |-> "https://fuck.com/wat.html", url |-> Url(<< <<"wat", "html">> >>)]
Hello == [str |-> "hello", url |-> NoUrl]
Empty == [str |-> "", url |-> NoUrl]

\* The text of a message after its command
Bodies == {Empty, Hello, PngUrl, HtmlUrl}

\* discord Attachment: dimensions() and url; a picture and another file
Picture == [dims |-> TRUE, url |-> PngUrl.url]
Notes == [dims |-> FALSE, url |-> Url(<< <<"notes", "txt">> >>)]
\* A file with dimensions whose URL does not end in an image extension, and
\* one whose last path segment has no '.' at all: https://fuck.com/png
Page == [dims |-> TRUE, url |-> HtmlUrl.url]
Bare == [dims |-> TRUE, url |-> Url(<< <<"png">> >>)]

\* message.attachments
AttachmentLists ==
    { <<>>, <<Picture>>, <<Notes>>, <<Notes, Picture>>, <<Page, Picture>>, <<Bare>> }

\* message.author
Humans == { [name |-> "bob", bot |-> FALSE],
            [name |-> "a_user_with_a_long_name", bot |-> FALSE] }
Bots == { [name |-> "otherbot", bot |-> TRUE] }

\* Event::MessageCreate(message): author, first word, rest, attachments
Message(a, c, b, atts) ==
    [src |-> "discord", author |-> a, cmd |-> c, body |-> b, atts |-> atts]

PrintMessages ==
    { Message(a, PRINT_COMMAND, b, atts) :
        a \in Humans, b \in Bodies, atts \in AttachmentLists }

LuaMessages == { Message(a, LUA_COMMAND, Hello, <<>>) : a \in Humans }

\* Messages that match no command, have no first word, or come from a bot
IgnoredMessages ==
    { Message(a, c, Empty, <<>>) : a \in Humans, c \in {"hi", ""} }
    \cup { Message(a, c, Hello, <<>>) :
             a \in Bots, c \in {PRINT_COMMAND, LUA_COMMAND, SHOW_COMMAND, HELP_COMMAND} }

\* StreamMessage::Tweet(t): t.id == config.user_id, t.user, t.text
Tweets ==
    { [src |-> "twitter", self |-> s, user |-> u, text |-> "hi"] :
        s \in BOOLEAN, u \in {"", "alice"} }

\* What connection.recv_event() returns besides a MessageCreate: another
\* event, a receive error, or Closed(code, body)
OtherEvent == [src |-> "gateway", what |-> "event"]
ReceiveError == [src |-> "gateway", what |-> "error"]
Closed(code, body) == [src |-> "gateway", what |-> "closed", code |-> code, body |-> body]
ClosedEvents == { Closed(c, b) : c \in {"None", "Some(1000)"}, b \in {"", "bye"} }

NoEvent == [src |-> "none"]

\* The replies of the router
SORRY_ASLEEP == "inactive hours"
SORRY_PRINTER == "printer disabled"
SORRY_CAMERA == "camera disabled"
HELP_TEXT == "help"
IMAGE_FILE == "image.jpg"

\* What handling one event caused
Outcome(replies, jobs, lua, captures, devCalls) ==
    [replies |-> replies, jobs |-> jobs, lua |-> lua,
     captures |-> captures, devCalls |-> devCalls]
Nothing == Outcome(<<>>, <<>>, <<>>, 0, 0)

(***************************************************************************)
(* PrintHandler (printer.rs)                                               *)
(***************************************************************************)
\* printer.rs:222
VALID_EXTENSIONS == {"gif", "png", "webp", "jpeg", "jpg"}

\* A check that takes every string for an image URL
validate_url_any(s) == TRUE

\* printer.rs:216-227  Some(url) or None
validate_url(s) ==
    IF ~s.abs \/ s.segs = <<>> THEN FALSE
    ELSE LET file_name == s.segs[Len(s.segs)]
             file_extension == file_name[Len(file_name)]
         IN  file_extension \in VALID_EXTENSIONS

\* message.timestamp.format("%m/%d/%y %H:%M")
date == "01/02/21 10:00"

\* printer.rs:110-120
header_line(author) ==
    LET full_date == author.name \o " " \o date \o ":"
    IN  IF Len(full_date) > PRINTER_CHARS_PER_LINE
        THEN author.name \o ": "
        ELSE full_date

\* printer.rs:153-212  print_image sends one Image message, resized to the
\* printer's width
PrintedImage == ImageMsg(PRINTER_DOTS_PER_LINE)

RECURSIVE attachment_jobs(_, _, _)
\* printer.rs:133-139  one image per attachment with dimensions and a valid
\* URL; dl[i] says whether the download and decoding of the i-th image
\* works; the first failure returns from the handler
attachment_jobs(atts, i, dl) ==
    IF atts = <<>> THEN <<>>
    ELSE IF Head(atts).dims /\ validate_url(Head(atts).url)
         THEN IF dl[i]
              THEN <<PrintedImage>> \o attachment_jobs(Tail(atts), i + 1, dl)
              ELSE <<>>
         ELSE attachment_jobs(Tail(atts), i + 1, dl)

\* printer.rs:101-107  nothing to print: no text and no attachment
nothing_to_do(message) == message.body.str = "" /\ message.atts = <<>>

\* printer.rs:124-139  the body, a picture when it is an image URL and text
\* otherwise, then the attachments
body_jobs(message, dl) ==
    LET text == message.body IN
    IF text.str = "" THEN attachment_jobs(message.atts, 2, dl)
    ELSE IF validate_url(text.url)
         THEN IF dl[1]
              THEN <<PrintedImage>> \o attachment_jobs(message.atts, 2, dl)
              ELSE <<>>
         ELSE <<TextMsg(text.str)>> \o attachment_jobs(message.atts, 2, dl)

\* printer.rs:99-141  the messages handle_print_request sends, in order
handle_print_request(message, dl) ==
    IF nothing_to_do(message) THEN <<>>
    ELSE <<TextMsg(header_line(message.author))>> \o body_jobs(message, dl)

\* main.rs:366  handler.handle_discord(message, header).  printer.rs has no
\* method of this name; it is handle_print_request with the header line
\* sent only when header is set (main.rs:77-79: "Print a header with each
\* message").
handle_discord(message, header, dl) ==
    IF header THEN handle_print_request(message, dl)
    ELSE IF nothing_to_do(message) THEN <<>>
         ELSE body_jobs(message, dl)

\* Which of the downloads of one message work: all of them, or all before
\* the first one that fails (the handler returns there)
Downloads == { [i \in 1..3 |-> i < fail] : fail \in 1..4 }

(***************************************************************************)
(* Router: main, discord_thread, twitter_thread_internal (main.rs)         *)
(***************************************************************************)
\* discord_thread has not returned
Running == "running"

\* The Err of a `?` in the event loop: of discord.send_message or
\* send_file, and of lua_tx.send
SendError == "send failed"
LuaSendError == "sending on a closed channel"

\* main.rs:413-417  format_err!("Gateway closed on us with code {:?}: {}",
\* code, body)
closed_error(code, body) ==
    "Gateway closed on us with code " \o code \o ": " \o body

RtInit ==
    /\ rtPc = "args"
    /\ opt = [disable_printer |-> FALSE, disable_camera |-> FALSE,
              header |-> FALSE, time_range |-> NoWindow]
    /\ printerWorkers = {}
    /\ cameraReaders = {}
    /\ rtEv = NoEvent
    /\ rtOut = Nothing
    /\ rtRet = Running

\* main.rs:532-538  printer is Some(sender) unless --disable-printer
printer_sender(o) == ~o.disable_printer

\* A slip: the clients are made whatever --disable-camera says
camera_client_always(o) == TRUE

\* main.rs:557-575  the CameraClients are Some unless --disable-camera
camera_client(o) == ~o.disable_camera

\* main.rs:523-575  parse the arguments; spawn the supervised printer worker
\* unless the printer is disabled, and camera_thread unless the camera is
main_args ==
    /\ rtPc = "args"
    /\ \E dp, dc, h \in BOOLEAN, w \in Windows \cup {NoWindow} :
          /\ opt' = [disable_printer |-> dp, disable_camera |-> dc,
                     header |-> h, time_range |-> w]
          /\ printerWorkers' = IF dp THEN {} ELSE {"main"}
          /\ cameraReaders' = IF dc THEN {} ELSE {"camera_thread"}
    /\ rtPc' = "setup"
    /\ UNCHANGED <<rtEv, rtOut, rtRet>>

\* What can happen in the set-up of discord_thread
SetupResults == {"ok", "tls failed", "ditherer failed", "login failed"}

\* main.rs:323-330  PrintHandler::new when there is a printer, then the log
\* in.  printer.rs:75-96  PrintHandler::new makes a channel of its own and
\* spawns a printer worker loop on it (after the TLS client is made, before
\* the ditherer is).
discord_setup ==
    /\ rtPc = "setup"
    /\ \E res \in SetupResults :
          /\ res \in {"tls failed", "ditherer failed"} => printer_sender(opt)
          /\ printerWorkers' =
                IF printer_sender(opt) /\ res # "tls failed"
                THEN printerWorkers \cup {"PrintHandler::new"}
                ELSE printerWorkers
          /\ rtPc' = IF res = "ok" THEN "serve" ELSE "closed"
          /\ rtRet' = IF res = "ok" THEN Running ELSE res
    /\ UNCHANGED <<opt, cameraReaders, rtEv, rtOut>>

\* An event and the local time at which it is handled
At(ev, t) == [ev |-> ev, at |-> t]

\* discord.send_message(channel, text, ..): one reply
reply(text) == Outcome(<<text>>, <<>>, <<>>, 0, 0)

\* The `?` after a call in the event loop: on Err discord_thread returns it
\* to its caller, on Ok the loop goes on
try(ok, err) ==
    /\ rtPc' = IF ok THEN rtPc ELSE "closed"
    /\ rtRet' = IF ok THEN rtRet ELSE err

\* main.rs:337-345, 408, 411  a bot's message, a message without a first
\* word, an unknown command: nothing is done
discord_ignored(m, t) ==
    /\ rtPc = "serve" /\ rtEv = NoEvent
    /\ rtEv' = At(m, t)
    /\ rtOut' = Nothing
    /\ UNCHANGED <<rtPc, rtRet, opt, printerWorkers, cameraReaders>>

\* main.rs:349-370  !print.  sent: the send_message call, when there is
\* one, returns Ok.  An Err of the handler is logged (log_result).
discord_print(m, t, dl, sent) ==
    /\ rtPc = "serve" /\ rtEv = NoEvent
    /\ rtEv' = At(m, t)
    /\ rtOut' = IF ~in_range(opt.time_range, t)
                 THEN reply(SORRY_ASLEEP)
                 ELSE IF printer_sender(opt)
                      THEN Outcome(<<>>, handle_discord(m, opt.header, dl), <<>>, 0, 0)
                      ELSE reply(SORRY_PRINTER)
    /\ try(sent \/ rtOut'.replies = <<>>, SendError)
    /\ UNCHANGED <<opt, printerWorkers, cameraReaders>>

\* main.rs:371-382  !lua: message.content without the leading command.
\* sent: the send_message call, or else lua_tx.send, returns Ok; a text
\* that lua_tx.send does not take is not in the request queue
discord_lua(m, t, sent) ==
    /\ rtPc = "serve" /\ rtEv = NoEvent
    /\ rtEv' = At(m, t)
    /\ IF ~in_range(opt.time_range, t)
       THEN rtOut' = reply(SORRY_ASLEEP) /\ try(sent, SendError)
       ELSE /\ rtOut' = Outcome(<<>>, <<>>,
                                IF sent THEN <<" " \o m.body.str>> ELSE <<>>, 0, 0)
            /\ try(sent, LuaSendError)
    /\ UNCHANGED <<opt, printerWorkers, cameraReaders>>

\* main.rs:383-385  !help
discord_help(m, t, sent) ==
    /\ rtPc = "serve" /\ rtEv = NoEvent
    /\ rtEv' = At(m, t)
    /\ rtOut' = reply(HELP_TEXT)
    /\ try(sent, SendError)
    /\ UNCHANGED <<opt, printerWorkers, cameraReaders>>

\* How a capture() call can end: with a frame; with None while camera_thread
\* has read, or is reading, a frame for it; with None and no read
CaptureResults == {"frame", "late", "none"}

\* main.rs:88-93  capture() by a thread that has a client: one request;
\* the device is read by camera_thread, not by the caller
capture(res) ==
    Outcome(<<>>, <<>>, <<>>, 1, IF res = "none" THEN 0 ELSE 1)

\* main.rs:386-407  !showme
discord_showme(m, t, res, sent) ==
    /\ rtPc = "serve" /\ rtEv = NoEvent
    /\ rtEv' = At(m, t)
    /\ LET c == IF camera_client(opt) THEN capture(res) ELSE Nothing
           answer == IF camera_client(opt) /\ res = "frame"
                     THEN IMAGE_FILE ELSE SORRY_CAMERA
       IN  rtOut' = [c EXCEPT !.replies = <<answer>>]
    /\ try(sent, SendError)
    /\ UNCHANGED <<opt, printerWorkers, cameraReaders>>

\* A receive error that is taken for any other: logged
is_closed_never(ev) == FALSE

\* main.rs:412  Err(discord::Error::Closed(code, body))
is_closed(ev) == ev.what = "closed"

\* main.rs:411, 419  Ok(_) => {} and Err(err) => error!(..): another event
\* and a receive error that is not Closed; the loop goes on
discord_gateway(ev, t) ==
    /\ rtPc = "serve" /\ rtEv = NoEvent
    /\ ~is_closed(ev)
    /\ rtEv' = At(ev, t)
    /\ rtOut' = Nothing
    /\ UNCHANGED <<rtPc, rtRet, opt, printerWorkers, cameraReaders>>

\* main.rs:412-418  Err(Closed(code, body)): break Err(..), discord_thread
\* returns the error to its caller (main.rs:581-590, which logs it)
discord_closed(ev, t) ==
    /\ rtPc = "serve" /\ rtEv = NoEvent
    /\ is_closed(ev)
    /\ rtEv' = At(ev, t)
    /\ rtOut' = Nothing
    /\ rtPc' = "closed"
    /\ rtRet' = closed_error(ev.code, ev.body)
    /\ UNCHANGED <<opt, printerWorkers, cameraReaders>>

\* main.rs:467-515  a tweet: with a printer, and unless it is our own or has
\* no user, its text is sent to the printer; then a picture is taken when
\* there is a camera client, and sent as a reply
twitter_tweet(tw, t, res) ==
    /\ rtPc # "args" /\ rtEv = NoEvent
    /\ rtEv' = At(tw, t)
    /\ IF printer_sender(opt) /\ ~tw.self /\ tw.user # ""
       THEN LET c == IF camera_client(opt) THEN capture(res) ELSE Nothing IN
            rtOut' = [c EXCEPT
                        !.jobs = <<TextMsg(tw.user \o ": " \o tw.text \o "\n\n")>>,
                        !.replies = IF camera_client(opt) /\ res = "frame"
                                    THEN <<"Here ya go!">> ELSE <<>>]
       ELSE rtOut' = Nothing
    /\ UNCHANGED <<rtPc, rtRet, opt, printerWorkers, cameraReaders>>

\* main.rs:333-334, 467  the loop comes back for the next event
next_event ==
    /\ rtEv # NoEvent
    /\ rtEv' = NoEvent
    /\ rtOut' = Nothing
    /\ UNCHANGED <<rtPc, rtRet, opt, printerWorkers, cameraReaders>>

\* The other threads do not move in a step of the router
router_only == UNCHANGED <<camVars, prVars, luaVars>>

RouterNext ==
    \/ main_args /\ router_only
    \/ discord_setup /\ router_only
    \/ /\ rtEv = NoEvent
       /\ \E m \in IgnoredMessages, t \in Times : discord_ignored(m, t) /\ router_only
    \/ /\ rtEv = NoEvent
       /\ \E m \in PrintMessages, t \in Times, dl \in Downloads, sent \in BOOLEAN :
             discord_print(m, t, dl, sent) /\ router_only
    \/ /\ rtEv = NoEvent
       /\ \E m \in LuaMessages, t \in Times, sent \in BOOLEAN :
             discord_lua(m, t, sent) /\ router_only
    \/ /\ rtEv = NoEvent
       /\ \E a \in Humans, t \in Times, sent \in BOOLEAN :
             discord_help(Message(a, HELP_COMMAND, Empty, <<>>), t, sent)
                /\ router_only
    \/ /\ rtEv = NoEvent
       /\ \E a \in Humans, t \in Times, res \in CaptureResults, sent \in BOOLEAN :
             discord_showme(Message(a, SHOW_COMMAND, Empty, <<>>), t, res, sent)
                /\ router_only
    \/ /\ rtEv = NoEvent
       /\ \E ev \in {OtherEvent, ReceiveError} \cup ClosedEvents, t \in Times :
             discord_gateway(ev, t) /\ router_only
    \/ /\ rtEv = NoEvent
       /\ \E ev \in ClosedEvents, t \in Times : discord_closed(ev, t) /\ router_only
    \/ /\ rtEv = NoEvent
       /\ \E tw \in Tweets, t \in Times, res \in CaptureResults :
             twitter_tweet(tw, t, res) /\ router_only
    \/ next_event /\ router_only

Init == CamInit /\ PrInit /\ LuaInit /\ RtInit

LuaSpec == Init /\ [][LuaNext]_vars

PrinterSpec == Init /\ [][PrinterNext]_vars

CameraSpec == Init /\ [][CameraNext]_vars

RouterSpec == Init /\ [][RouterNext]_vars

\* Threads are scheduled: a client that can return does, and time passes.
CameraFairSpec ==
    /\ CameraSpec
    /\ WF_vars(Tick /\ camera_only)
    /\ \A c \in Clients : /\ WF_vars(capture_frame(c) /\ camera_only)
                           /\ WF_vars(capture_none(c) /\ camera_only)

(***************************************************************************)
(* Properties of the camera arbiter                                        *)
(***************************************************************************)
\* The frames the arbiter sent to client c, in sending order
FramesFor(c) ==
    LET sel == SelectSeq(sendLog, LAMBDA e : e[1] = c)
    IN  [i \in 1..Len(sel) |-> sel[i][2]]

\* Requests the arbiter has fully served
served == IF camPc = "next" THEN Len(reqLog) - 1 ELSE Len(reqLog)

\* C1: while the arbiter serves (no device error, no closed response
\* channel), N received requests cause exactly N reads after priming and N
\* sends; the k-th frame read goes to the client of the k-th request and to
\* no other channel, requests being taken in arrival order.
C1_ArbiterServesInOrder ==
    camPc \in {"recv", "next"} =>
        /\ reqLog \o camReq = reqSent
        /\ Len(sendLog) = served
        /\ devReads = steps + served
        /\ \A k \in 1..served : sendLog[k] = <<reqLog[k], steps + k>>
        /\ \A c \in Clients : delivered[c] \o resp[c] = FramesFor(c)

\* C1 witness: three requests from both clients have been served
C1_Witness ==
    /\ camPc = "recv"
    /\ Len(sendLog) = 3
    /\ \E i, j \in 1..3 : reqLog[i] = 0 /\ reqLog[j] = 1

\* C2: the frame a capture() call returns is the frame the arbiter read for
\* that call's own request (the calls[c]-th request of client c).
C2_FrameIsForThisCall ==
    \A c \in Clients :
        (cliPc[c] # "wait" /\ ret[c] # NoFrame) =>
            /\ Len(FramesFor(c)) >= calls[c]
            /\ ret[c] = FramesFor(c)[calls[c]]

\* C3: a capture() call always returns, a frame or None, and never waits
\* longer than the timeout on its response channel.
C3_CaptureReturns ==
    /\ [](\A c \in Clients : waited[c] <= CAPTURE_TIMEOUT)
    /\ \A c \in Clients : (cliPc[c] = "wait") ~> (cliPc[c] = "idle")

\* C3 witness: a call has returned None after the full timeout while the
\* arbiter sits in its device read
C3_Witness ==
    \E c \in Clients :
        /\ cliPc[c] = "idle" /\ calls[c] >= 1
        /\ ret[c] = NoFrame /\ waited[c] = CAPTURE_TIMEOUT
        /\ camPc = "next"

(***************************************************************************)
(* Properties of the printer worker                                        *)
(***************************************************************************)
\* The messages the worker has taken from the channel, in order
prTaken ==
    [i \in 1..Len(prDone) |-> prDone[i][1]]
        \o (IF prPc = "apply" THEN <<prCur>> ELSE <<>>)

\* C4: the worker takes the messages in the order they arrived on the
\* channel, whoever sent them, and at most one message is on the device at
\* any time: the next one is received only when the previous one is done.
C4_FifoNoOverlap ==
    /\ prTaken \o prQueue = prSent
    /\ Cardinality(onDevice) <= 1
    /\ prPc = "apply" => onDevice = {prCur}
    /\ prPc # "apply" => onDevice = {}

\* C4 witness: messages of all three producers were applied, one of them
\* failed, and another one is on the device
C4_Witness ==
    /\ prPc = "apply"
    /\ Len(prDone) >= 3
    /\ \E i \in 1..Len(prDone) : ~prDone[i][2]
    /\ \A p \in Producers : \E i \in 1..Len(prTaken) : prTaken[i].by = p

(***************************************************************************)
(* Properties of the sandbox executor                                      *)
(***************************************************************************)
\* The calls of this evaluation that were charged to its own text counter
ownPrints == SelectSeq(emitLog, LAMBDA e : e.fn = "print" /\ e.gen = gen)

\* C5: with the text limit 10, print of 5 bytes succeeds, a second print of 5
\* bytes succeeds, and a third print of 1 byte fails.
C5_FivePlusFiveFitsTen ==
    LET n == Len(ownPrints) IN
    /\ (n >= 1 /\ ownPrints[1].len = 5) => ownPrints[1].ok
    /\ (n >= 2 /\ ownPrints[1].len = 5 /\ ownPrints[2].len = 5) => ownPrints[2].ok
    /\ (n >= 3 /\ ownPrints[1].len = 5 /\ ownPrints[2].len = 5
               /\ ownPrints[3].len = 1) => ~ownPrints[3].ok

\* C6: an evaluation starts with both counters at the configured limits, and
\* every print/image call made during it is charged to the counters made for
\* it, never to a counter made for an earlier submission.
C6_BudgetsArePerSubmission ==
    /\ (luaPc = "eval" /\ emitLog = <<>>) =>
          textRem[gen] = max_bytes_text /\ imgRem[gen] = max_bytes_image
    /\ \A i \in 1..Len(emitLog) : emitLog[i].gen = gen

\* C7: within one submission a budget never grows, and once it is
\* non-positive every later call for that resource fails and forwards nothing.
C7_ExhaustedStaysExhausted ==
    \A i, j \in 1..Len(emitLog) :
        (i < j /\ emitLog[i].fn = emitLog[j].fn) =>
            /\ emitLog[j].cur <= emitLog[i].cur
            /\ emitLog[i].cur <= 0 => ~emitLog[j].ok

\* C8: every evaluation ends before it has run max_instructions
\* instructions: when the hook fires, the evaluation is over.
C8_EvalEndsWithinLimit ==
    luaPc = "eval" => ~hookFired /\ instr < max_instructions

RECURSIVE TextBytes(_)
\* Bytes of the Text messages in a sequence of messages
TextBytes(msgs) ==
    IF msgs = <<>> THEN 0
    ELSE (IF Head(msgs).kind = "Text" THEN Len(Head(msgs).text) ELSE 0)
         + TextBytes(Tail(msgs))

\* C9: the Text messages forwarded while handling one submission never add
\* up to more bytes than the text limit.
C9_TextOutputWithinLimit ==
    TextBytes(luaOut) <= max_bytes_text

\* The lines of the last outcome are the last messages forwarded
reported ==
    LET lines == outcome_lines(outcome)
        n == Len(lines)
        m == Len(luaOut)
    IN  /\ m >= n
        /\ \A i \in 1..n : luaOut[m - n + i] = TextMsg(lines[i])

\* C10: submissions are taken in arrival order and handled one at a time:
\* when the executor receives, the previous evaluation has ended, its lines
\* are forwarded and its hook is removed.
C10_OneSubmissionAtATime ==
    /\ luaTaken \o luaQueue = [i \in 1..luaSent |-> i]
    /\ Cardinality(handling) <= 1
    /\ luaPc \in {"recv", "dead"} =>
          /\ handling = {}
          /\ ~hookOn
          /\ gen > 0 => outcome.kind # "none" /\ reported
    /\ luaPc \in {"eval", "report"} =>
          /\ handling = {luaTaken[Len(luaTaken)]}
          /\ hookOn
    /\ luaPc = "eval" => outcome.kind = "none"

\* C10 witness: the second submission is being evaluated, after the first
\* one was finished with, and has called print
C10_Witness ==
    /\ luaPc = "eval"
    /\ luaTaken = <<1, 2>>
    /\ globals.saved = Closure("print", 1)
    /\ Len(emitLog) = 1

(***************************************************************************)
(* Properties of the router                                                *)
(***************************************************************************)
\* The event being handled is a chat message of a human with command c
human_command(c) ==
    /\ rtEv # NoEvent
    /\ rtEv.ev.src = "discord"
    /\ ~rtEv.ev.author.bot
    /\ rtEv.ev.cmd = c

\* A time window is configured and TimeRange::contains says that the local
\* time read for the event is not in it
outside_hours ==
    /\ rtEv # NoEvent
    /\ opt.time_range # NoWindow
    /\ ~contains(opt.time_range, rtEv.at)

\* C11: at most one printer worker loop runs in the process, and only
\* camera_thread reads the camera.
C11_OneThreadPerDevice ==
    /\ Cardinality(printerWorkers) <= 1
    /\ cameraReaders \subseteq {"camera_thread"}

C13_NoJobOutsideHours ==
    outside_hours => rtOut.jobs = <<>>

\* The window that runs forward from begin to end, past midnight when
\* begin > end
InWindow(begin, end, t) ==
    IF begin < end THEN begin < t /\ t <= end
    ELSE t > begin \/ t <= end

\* C14: contains(t) is true exactly for the times of the window from begin
\* to end (begin < t <= end, or t > begin or t <= end when it wraps), and for
\* begin # end the swapped range contains exactly the other times.  The
\* gate's verdict is read off the router's reply to a !print or !lua.
C14_ContainsIsTheWindow ==
    ((human_command(PRINT_COMMAND) \/ human_command(LUA_COMMAND))
        /\ opt.time_range # NoWindow /\ opt.time_range[1] # opt.time_range[2])
    => LET begin == opt.time_range[1]
           end == opt.time_range[2]
           t == rtEv.at
       IN  /\ (rtOut.replies # <<SORRY_ASLEEP>>) = InWindow(begin, end, t)
           /\ contains(TimeRange(begin, end), t) = InWindow(begin, end, t)
           /\ contains(TimeRange(end, begin), t) = ~contains(TimeRange(begin, end), t)

\* The event being handled is `!print hello` of a human, without
\* attachments, with the printer on and the gate open
print_hello ==
    /\ human_command(PRINT_COMMAND)
    /\ rtEv.ev.body = Hello
    /\ rtEv.ev.atts = <<>>
    /\ printer_sender(opt)
    /\ ~outside_hours

\* Exactly two jobs, a Text header and the Text "hello", and nothing else
header_then_hello ==
    /\ Len(rtOut.jobs) = 2
    /\ rtOut.jobs[1].kind = "Text"
    /\ rtOut.jobs[1].text \in { rtEv.ev.author.name \o " " \o date \o ":",
                                rtEv.ev.author.name \o ": " }
    /\ rtOut.jobs[2] = TextMsg("hello")
    /\ rtOut.replies = <<>> /\ rtOut.lua = <<>>
    /\ rtOut.captures = 0 /\ rtOut.devCalls = 0

C16_NoCameraNoDeviceCall ==
    (human_command(SHOW_COMMAND) /\ opt.disable_camera)
        => /\ rtOut = Outcome(<<SORRY_CAMERA>>, <<>>, <<>>, 0, 0)
           /\ cameraReaders = {}

\* C16 witness: a !showme was answered with the camera disabled
C16_Witness ==
    /\ human_command(SHOW_COMMAND)
    /\ opt.disable_camera
    /\ rtOut.replies = <<SORRY_CAMERA>>

(***************************************************************************)
(* Properties of the worker lifecycles                                     *)
(***************************************************************************)
\* The step in which applying a job ends with the error err
apply_fails_with(err) ==
    /\ prPc = "apply"
    /\ Len(prDone') = Len(prDone) + 1
    /\ ~prDone'[Len(prDone')][2]
    /\ prErr' = err

\* C17: an error in applying a job that is not 'link lost' leaves the
\* worker serving in the same device session: it goes on to receive the
\* next job, without device initialisation and without a new banner.
C17_JobErrorIsNotFatal ==
    [][apply_fails_with("error") => (prPc' = "recv" /\ prBanners' = prBanners)]_vars

\* A job that was in the channel when a session ended with an Err is on the
\* device, in a later session
stranded_job_applied == prPc = "apply" /\ prStranded > 0

\* C18 as stated: no job that was queued and not applied when a device
\* session ended with an error is applied to the device after the restart.
C18_QueuedJobsDiscarded ==
    ~stranded_job_applied

\* C18 amended: the jobs that were queued and not applied when a device
\* session ended with an error are kept: they stay the oldest messages of
\* the channel until the restarted worker takes them, and the worker takes
\* every message in sending order (only the job that failed is not applied
\* again).
C18_QueuedJobsSurviveRestart ==
    /\ prStranded <= Len(prQueue) + (IF prPc = "apply" THEN 1 ELSE 0)
    /\ prTaken \o prQueue = prSent

\* C18 witness: a job that was in the channel when the first session was
\* lost is being applied in the second session
C18_Witness ==
    /\ stranded_job_applied
    /\ prBanners = 2
    /\ \E i \in 1..Len(prDone) : ~prDone[i][2]

\* The step in which stream.next() of the serve loop returns an Err: the
\* arbiter leaves "next" without a frame having been read
frame_read_fails ==
    /\ camPc = "next"
    /\ camPc' # "next"
    /\ devReads' = devReads

\* C19: one failed frame read in the serve loop leaves the camera worker
\* running: it goes back to receiving capture requests.
C19_ReadErrorKeepsWorker ==
    [][frame_read_fails => (camera_alive' /\ camPc' = "recv")]_vars

\* C20: a device-owning worker that has stopped on a fatal error while its
\* clients are still there is eventually running again.
C20_WorkerComesBack ==
    (~camera_alive /\ ~senders_gone) ~> camera_alive


(***************************************************************************)
(* Properties of the event loop of discord_thread                          *)
(***************************************************************************)
\* The event being handled is the gateway's Closed(code, body)
closed_event ==
    /\ rtEv # NoEvent
    /\ rtEv.ev.src = "gateway"
    /\ rtEv.ev.what = "closed"

\* What discord_thread can return before its event loop is entered
StartupErrors == SetupResults \ {"ok"}

\* C21: once the event loop is entered, discord_thread returns only on a
\* gateway-closed event: what it returned is a start-up error or the error
\* made from Closed(code, body), never the error of a failed send.
C21_OnlyClosedEndsLoop ==
    rtRet \in {Running} \cup StartupErrors
              \cup { closed_error(e.code, e.body) : e \in ClosedEvents }

\* C22: on Closed(code, body) discord_thread stops and returns an error
\* that carries code and body; once it has returned it stays so, and every
\* event handled afterwards is one of the other source, the twitter stream.
C22_ClosedIsFatal ==
    /\ [](closed_event =>
            /\ rtPc = "closed"
            /\ rtRet = "Gateway closed on us with code " \o rtEv.ev.code
                          \o ": " \o rtEv.ev.body)
    /\ [][rtPc = "closed" =>
            /\ rtPc' = "closed"
            /\ rtRet' = rtRet
            /\ (rtEv' # rtEv /\ rtEv' # NoEvent) => rtEv'.ev.src = "twitter"]_vars

\* C22 witness: the gateway closed with code 1000 and body "bye"; a tweet
\* is handled after discord_thread has returned the error
C22_Witness ==
    /\ rtPc = "closed"
    /\ rtRet = "Gateway closed on us with code Some(1000): bye"
    /\ rtEv # NoEvent
    /\ rtEv.ev.src = "twitter"


(***************************************************************************)
(* Properties of the sandbox's output                                      *)
(***************************************************************************)
\* The step in which lua_thread maps the outcome of eval() to print_res
reports == luaPc = "report" /\ luaPc' = "recv"

\* The messages the step has passed to print_res
reported_lines ==
    [i \in 1..(Len(luaOut') - Len(luaOut)) |-> luaOut'[Len(luaOut) + i]]

\* The step leaves what print_res got before it as it was
output_kept ==
    /\ Len(luaOut') >= Len(luaOut)
    /\ \A i \in 1..Len(luaOut) : luaOut'[i] = luaOut[i]

\* N values give N Text lines, the i-th the rendering of the i-th value
value_lines ==
    /\ Len(reported_lines) = Len(outcome.vals)
    /\ \A i \in 1..Len(outcome.vals) :
          reported_lines[i] = TextMsg(value_to_string(outcome.vals[i]))

\* C23 as stated: an error outcome gives exactly one Text line, the message
\* verbatim when a host callback raised a runtime error and "Error:
\* <message>" otherwise; N values give N Text lines in value order.
C23_OutcomeLines ==
    [][reports =>
        /\ output_kept
        /\ IF outcome.kind = "ok" THEN value_lines
           ELSE IF outcome.kind = "callback" /\ outcome.cause = "runtime"
                THEN reported_lines = <<TextMsg(outcome.msg)>>
                ELSE reported_lines = <<TextMsg("Error: " \o outcome.msg)>>]_vars

\* C23 amended: an error outcome gives exactly one Text line: the message
\* verbatim for a callback error caused by a runtime error, "Callback
\* error: <cause>" for a callback error with any other cause, and "Error:
\* <message>" for every other error; N values give N Text lines in value
\* order.
C23_OutcomeLinesThreeForms ==
    [][reports =>
        /\ output_kept
        /\ IF outcome.kind = "ok" THEN value_lines
           ELSE IF outcome.kind = "callback" /\ outcome.cause = "runtime"
                THEN reported_lines = <<TextMsg(outcome.msg)>>
                ELSE IF outcome.kind = "callback"
                     THEN reported_lines = <<TextMsg("Callback error: " \o outcome.msg)>>
                     ELSE reported_lines = <<TextMsg("Error: " \o outcome.msg)>>]_vars

\* C23 witness: a callback error with another cause than a runtime error
\* has been reported in one line
C23_Witness ==
    /\ luaPc = "recv" /\ gen >= 1
    /\ outcome.kind = "callback" /\ outcome.cause = "other"
    /\ luaOut # <<>>
    /\ luaOut[Len(luaOut)] = TextMsg("Callback error: " \o outcome.msg)

\* The step is a call of the function fn by the script that reached the
\* callback; called is its record
calls_fn(fn) ==
    /\ Len(emitLog') = Len(emitLog) + 1
    /\ emitLog'[Len(emitLog')].fn = fn

called == emitLog'[Len(emitLog')]

\* The step raises err into the script: the protected call it is in ends,
\* or else eval() returns err
raises(err) ==
    IF inPcall THEN luaPc' = "eval" /\ ~inPcall' /\ outcome' = outcome
    ELSE luaPc' = "report" /\ outcome' = err

\* C25: a print call with L bytes first takes L from the counter of its
\* closure; it forwards the Text to the printer sink if and only if the
\* counter is then strictly positive, and otherwise forwards nothing and
\* raises 'Text byte limit reached'.
C25_TextEmit ==
    [][calls_fn("print") =>
        LET g == called.gen IN
        /\ textRem'[g] = textRem[g] - called.len
        /\ output_kept
        /\ IF textRem'[g] > 0
           THEN /\ Len(reported_lines) = 1
                /\ reported_lines[1].kind = "Text"
                /\ Len(reported_lines[1].text) = called.len
                /\ luaPc' = "eval" /\ outcome' = outcome
           ELSE /\ reported_lines = <<>>
                /\ raises(CallbackRuntime("Text byte limit reached"))]_vars

\* C25 witness: in one evaluation a print call was forwarded and a later
\* one was refused; eval() has returned the error
C25_Witness ==
    /\ luaPc = "report"
    /\ outcome = CallbackRuntime("Text byte limit reached")
    /\ \E i, j \in 1..Len(emitLog) :
          /\ i < j
          /\ emitLog[i].fn = "print" /\ emitLog[i].ok
          /\ emitLog[j].fn = "print" /\ ~emitLog[j].ok
    /\ luaOut # <<>>

\* C29: an image call whose bit count is not a multiple of 384 forwards
\* no Image and raises an error into the script, and the counter of its
\* closure has gone down by the bit count all the same.
C29_RejectedImageConsumesBudget ==
    [][(calls_fn("image") /\ called.len % 384 # 0) =>
        LET g == called.gen IN
        /\ luaOut' = luaOut
        /\ imgRem'[g] = imgRem[g] - called.len
        /\ IF inPcall THEN luaPc' = "eval" /\ ~inPcall'
           ELSE /\ luaPc' = "report"
                /\ outcome'.kind = "callback"
                /\ outcome'.msg \in {"Err: Img width != 384",
                                     "Image byte limit reached"}]_vars

\* C29 witness: an image of 100 bits was refused for its width and the
\* counter of the evaluation stands 100 under the limit
C29_Witness ==
    /\ luaPc = "report"
    /\ outcome = CallbackRuntime("Err: Img width != 384")
    /\ emitLog # <<>>
    /\ emitLog[Len(emitLog)] = [fn |-> "image", len |-> 100, ok |-> FALSE,
                                gen |-> gen, cur |-> max_bytes_image - 100]
    /\ imgRem[gen] = max_bytes_image - 100
    /\ luaOut = <<>>


(***************************************************************************)
(* Properties of the attachments of a !print                               *)
(***************************************************************************)
\* The URL is absolute, has path segments, and the text after the last '.'
\* of its last segment is an image extension
image_extension(url) ==
    /\ url.abs
    /\ url.segs # <<>>
    /\ LET file_name == url.segs[Len(url.segs)] IN
          /\ Len(file_name) >= 2
          /\ file_name[Len(file_name)] \in {"gif", "png", "webp", "jpeg", "jpg"}

\* The Image jobs among the jobs the event caused
image_jobs == SelectSeq(rtOut.jobs, LAMBDA j : j.kind = "Image")

\* C24: for a !print whose body is no URL, every Image job comes from an
\* attachment that reports dimensions and whose URL has an image extension
\* after the last '.' of its last path segment, and validate_url accepts
\* exactly those URLs.
C24_OnlyImageAttachments ==
    (human_command(PRINT_COMMAND) /\ rtEv.ev.body \in {Empty, Hello}) =>
        LET atts == rtEv.ev.atts
            printable == SelectSeq(atts, LAMBDA a : a.dims /\ image_extension(a.url))
        IN  /\ Len(image_jobs) <= Len(printable)
            /\ \A i \in 1..Len(atts) :
                  validate_url(atts[i].url) = image_extension(atts[i].url)


(***************************************************************************)
(* Properties of the camera's priming and of its end                       *)
(***************************************************************************)
\* Every frame that the arbiter sent, that waits in a response channel or
\* that a capture() call returned
frames_out ==
    { sendLog[i][2] : i \in 1..Len(sendLog) }
    \cup UNION { { resp[c][i] : i \in 1..Len(resp[c]) } : c \in Clients }
    \cup UNION { { delivered[c][i] : i \in 1..Len(delivered[c]) } : c \in Clients }
    \cup { ret[c] : c \in { d \in Clients : ret[d] # NoFrame } }

\* C26: the 5 priming reads are made once, after the set-up and before the
\* first capture request is received; no frame that goes to a client is one
\* of the first 5 frames read, and no read in the serve loop is a priming
\* read.
C26_PrimedOnceBeforeServing ==
    /\ [](/\ primed <= 5
          /\ camPc \in {"recv", "next"} => primed = 5
          /\ camPc \in {"setup", "prime"} => reqLog = <<>>
          /\ \A f \in frames_out : f > 5)
    /\ [][primed' # primed => (camPc = "prime" /\ primed' = primed + 1)]_vars

\* C26 witness: a capture() call has returned the sixth frame read
C26_Witness ==
    /\ primed = 5
    /\ \E c \in Clients : ret[c] = 6 /\ cliPc[c] = "idle"

\* The step in which the arbiter, having read a frame, finds the response
\* channel of the requesting client closed
delivery_to_closed ==
    /\ camPc = "next" /\ camPc' # "next"
    /\ devReads' = devReads + 1
    /\ cliPc[response_channel(camCur)] = "gone"

\* The step in which client c begins a capture() call
begins_capture(c) == calls'[c] = calls[c] + 1

\* C28: when the arbiter finds the response channel of the requesting
\* client closed it ends for good, and every capture() call begun after
\* that returns 'no frame' at once, with no request queued and no device
\* read.
C28_ClosedClientEndsArbiter ==
    /\ [][delivery_to_closed => camPc' = "dead"]_vars
    /\ [][camPc = "dead" =>
            /\ camPc' = "dead"
            /\ devReads' = devReads
            /\ \A c \in Clients : begins_capture(c) =>
                  /\ ret'[c] = NoFrame
                  /\ cliPc'[c] = "idle"
                  /\ camReq' = camReq]_vars

\* C28 witness: client 0 is gone with a request the arbiter took and read
\* a frame for but could not answer; client 1 has made a call since that
\* queued no request and returned 'no frame'
C28_Witness ==
    /\ camPc = "dead"
    /\ cliPc[0] = "gone"
    /\ Len(reqLog) = Len(sendLog) + 1
    /\ reqLog[Len(reqLog)] = 0
    /\ devReads = 5 + Len(reqLog)
    /\ cliPc[1] = "idle" /\ ret[1] = NoFrame
    /\ calls[1] > Len(SelectSeq(reqSent, LAMBDA c : c = 1))

(***************************************************************************)
(* Properties of the printer channel                                       *)
(***************************************************************************)
\* How many sends the producers have made
RECURSIVE sends_of(_)
sends_of(P) ==
    IF P = {} THEN 0
    ELSE LET p == CHOOSE q \in P : TRUE IN prSentBy[p] + sends_of(P \ {p})

====
